---- MODULE Spec2Model ----
\* Model of the ilia launcher core (common/src/lib.rs): the State of Ilia<T>,
\* the messages handled by Ilia::update, and the filter / navigation helpers.
\*
\* Representation notes
\*  - A Rust String is a sequence of one-character strings (<<"A","b">>).
\*  - An item T is a record [appid, title]; title() returns the title field.
\*  - f32 offsets are integers counted in ten-thousandths (0.00750 -> 75).
\*  - `effects` is what the last call of update produced, in order: the
\*    calls of flags.primary_action, the returned Task and process exit.
\*  - `boot` is the Task returned by Ilia::new: "pending" until the runtime
\*    has run it and delivered its ModelLoaded message, then "delivered".
\*    A caller that drops the Task and calls update itself (the tests of
\*    ilia-drun) leaves it pending.
EXTENDS Integers, Sequences, FiniteSets, TLC

VARIABLES entry, apps, selected_index, received_focus, pc, msg, effects, boot

vars == <<entry, apps, selected_index, received_focus, pc, msg, effects, boot>>

\* ---------------------------------------------------------------- bounds
\* longest item list a ModelLoaded message carries
MaxItems == 3
\* longest text an EntryUpdate message carries
MaxEntryLen == 2

\* characters the user can type into the entry box
EntryAlphabet == {"a", "B"}

\* the items an item_loader can return (distinct appids, mixed-case titles)
Catalog ==
  { [appid |-> 1, title |-> <<"A", "b">>],
    [appid |-> 2, title |-> <<"b", "A">>],
    [appid |-> 3, title |-> <<"B">>] }

\* length of the one long list used to scroll past the end of the viewport
LongLen == 135

SeqsUpTo(S, n) == UNION { [1..k -> S] : k \in 0..n }

ItemLists == SeqsUpTo(Catalog, MaxItems)
EntryTexts == SeqsUpTo(EntryAlphabet, MaxEntryLen)

\* a loader result long enough for row offsets above 1.0
LongList == [i \in 1..LongLen |-> [appid |-> 3, title |-> <<"B">>]]
ScrollLists == SeqsUpTo(Catalog, 1) \cup {LongList}

\* what a call of flags.primary_action can do: return Ok(()), return Err
\* (then .expect panics), or end the process itself (launch_app: exit(0))
ActionOutcomes == {"Ok", "Err", "Exit"}

\* launch_app returning Ok(()) after a successful spawn instead of exiting
launch_app_returns == {"Ok", "Err"}

\* what launch_app of ilia-drun can do: exit(0) after a successful spawn,
\* or fail (the ? on split / spawn returns Err, args[0] and exec() panic)
launch_app == {"Exit", "Err"}

\* -------------------------------------------------------------- constants
\* ITEM_HEIGHT_SCALE_FACTOR: f32 = 0.00750, in ten-thousandths
ITEM_HEIGHT_SCALE_FACTOR == 75

\* ---------------------------------------------------------------- effects
NoTask == <<>>
FocusEntry == [type |-> "RequestFocus", widget |-> "entry"]
SnapTo(y) == [type |-> "ScrollTo", widget |-> "items", x |-> 0, y |-> y]
Invoke(item) == [type |-> "Invoke", item |-> item]
Terminate == [type |-> "Terminate", code |-> 0]

\* ------------------------------------------------------- string functions
\* LowerChar without the case mapping: a case-sensitive comparison
LowerChar_identity(c) == c

\* char::to_lowercase on the characters of the model
LowerChar(c) ==
  CASE c = "A" -> "a"
    [] c = "B" -> "b"
    [] OTHER -> c

\* str::to_lowercase
to_lowercase(s) == [i \in 1..Len(s) |-> LowerChar(s[i])]

\* true iff pat occurs in s starting at position i (1-based)
RECURSIVE MatchAt(_, _, _, _)
MatchAt(s, pat, i, k) ==
  IF k > Len(pat) THEN TRUE
  ELSE IF i + k - 1 > Len(s) THEN FALSE
  ELSE IF s[i + k - 1] # pat[k] THEN FALSE
  ELSE MatchAt(s, pat, i, k + 1)

\* str::contains: scan the start positions left to right
RECURSIVE ContainsFrom(_, _, _)
ContainsFrom(s, pat, i) ==
  IF MatchAt(s, pat, i, 1) THEN TRUE
  ELSE IF i > Len(s) THEN FALSE
  ELSE ContainsFrom(s, pat, i + 1)

contains(s, pat) == ContainsFrom(s, pat, 1)

\* Ilia::text_entry_filter(entry, model)
text_entry_filter(item, text) ==
  contains(to_lowercase(item.title), to_lowercase(text))

\* self.state.apps.iter().filter(|e| Self::text_entry_filter(e, &self.state))
filtered(items, text) ==
  SelectSeq(items, LAMBDA e : text_entry_filter(e, text))

\* selected_entry indexing the raw list instead of the filtered iterator
selected_entry_raw(items, text, index) ==
  IF index < Len(items) THEN <<items[index + 1]>> ELSE <<>>

\* Ilia::selected_entry: .nth(selected_index) of the filtered iterator,
\* as a sequence of zero (None) or one (Some) items
selected_entry(items, text, index) ==
  LET f == filtered(items, text)
  IN IF index < Len(f) THEN <<f[index + 1]>> ELSE <<>>

\* Ilia::view: the rows drawn, each with its `selected` style flag
view(items, text, index) ==
  LET f == filtered(items, text)
  IN [i \in 1..Len(f) |-> [name |-> f[i].title, selected |-> (index = i - 1)]]

\* (selected_index as i32 + delta) as usize.  A negative i32 cast to usize
\* is at least 2^64 - 2^31; the model keeps the negative integer to stand
\* for that value, which no Vec length can reach.
new_index_of(index, delta) == index + delta

\* a range check that tests the lower end only
range_contains_lower_only(size, new_index) == 0 <= new_index

\* (0..size).contains(&new_index) on the usize value
range_contains(size, new_index) == 0 <= new_index /\ new_index < size

\* ------------------------------------------------------------------- Init
\* Ilia::new
Init ==
  /\ entry = <<>>
  /\ apps = <<>>
  /\ selected_index = 0
  /\ received_focus = FALSE
  /\ pc = "running"
  /\ msg = [kind |-> "New"]
  /\ effects = NoTask
  /\ boot = "pending"

\* ---------------------------------------------------------------- actions
\* ModelLoaded arm that also resets the selection
ModelLoadedArm_resets_index(items) ==
  /\ pc = "running"
  /\ apps' = items
  /\ selected_index' = 0
  /\ msg' = [kind |-> "ModelLoaded", items |-> items]
  /\ effects' = <<FocusEntry>>
  /\ UNCHANGED <<entry, received_focus, pc>>

\* the ModelLoaded arm of update, on the fields of State
ModelLoadedArm(items) ==
  /\ pc = "running"
  /\ apps' = items
  /\ msg' = [kind |-> "ModelLoaded", items |-> items]
  /\ effects' = <<FocusEntry>>
  /\ UNCHANGED <<entry, selected_index, received_focus, pc>>

\* IliaMessage::ModelLoaded(items), passed to update by its caller
ModelLoaded(items) ==
  /\ ModelLoadedArm(items)
  /\ UNCHANGED boot

\* the boot Task run again by the runtime: it stays pending after delivery
BootTask_stays_pending ==
  /\ boot = "pending"
  /\ \E items \in ItemLists : ModelLoadedArm(items)
  /\ boot' = "pending"

\* the runtime runs the Task returned by Ilia::new:
\*   Task::perform(async {}, move |_| ModelLoaded((flags.item_loader)()))
\* calls item_loader once and passes its result to update
BootTask ==
  /\ boot = "pending"
  /\ \E items \in ItemLists : ModelLoadedArm(items)
  /\ boot' = "delivered"

\* EntryUpdate that keeps the previous selected_index
EntryUpdate_keep_index(entry_text) ==
  /\ pc = "running"
  /\ entry' = entry_text
  /\ msg' = [kind |-> "EntryUpdate", text |-> entry_text]
  /\ effects' = NoTask
  /\ UNCHANGED <<apps, selected_index, received_focus, pc, boot>>

\* EntryUpdate that rebuilds the list by dropping the items filtered out
EntryUpdate_narrows_apps(entry_text) ==
  /\ pc = "running"
  /\ entry' = entry_text
  /\ apps' = filtered(apps, entry_text)
  /\ selected_index' = 0
  /\ msg' = [kind |-> "EntryUpdate", text |-> entry_text]
  /\ effects' = NoTask
  /\ UNCHANGED <<received_focus, pc, boot>>

\* IliaMessage::EntryUpdate(entry_text)
EntryUpdate(entry_text) ==
  /\ pc = "running"
  /\ entry' = entry_text
  /\ selected_index' = 0
  /\ msg' = [kind |-> "EntryUpdate", text |-> entry_text]
  /\ effects' = NoTask
  /\ UNCHANGED <<apps, received_focus, pc, boot>>

\* the body shared by ExecuteSelected and KeyEvent(Enter):
\*   if let Some(entry) = self.selected_entry() {
\*       (self.flags.primary_action)(entry).expect("Failed to launch app"); }
\*   Task::none()
PrimaryActionCall(outcomes) ==
  LET sel == selected_entry(apps, entry, selected_index)
  IN IF sel = <<>>
     THEN /\ effects' = NoTask
          /\ pc' = pc
     ELSE \E outcome \in outcomes :
            /\ effects' = IF outcome = "Exit"
                          THEN <<Invoke(sel[1]), Terminate>>
                          ELSE <<Invoke(sel[1])>>
            /\ pc' = CASE outcome = "Ok" -> "running"
                       [] outcome = "Err" -> "panicked"
                       [] outcome = "Exit" -> "exited"

\* the same body with any primary_action (Ilia is generic in its flags)
RunPrimaryAction == PrimaryActionCall(ActionOutcomes)

\* IliaMessage::ExecuteSelected() with primary_action: launch_app
DrunExecuteSelected ==
  /\ pc = "running"
  /\ PrimaryActionCall(launch_app)
  /\ msg' = [kind |-> "ExecuteSelected"]
  /\ UNCHANGED <<entry, apps, selected_index, received_focus, boot>>

\* IliaMessage::KeyEvent(Key::Named(Named::Enter)) with launch_app
DrunKeyEnter ==
  /\ pc = "running"
  /\ PrimaryActionCall(launch_app)
  /\ msg' = [kind |-> "KeyEvent", key |-> "Enter"]
  /\ UNCHANGED <<entry, apps, selected_index, received_focus, boot>>

\* IliaMessage::ExecuteSelected()
ExecuteSelected ==
  /\ pc = "running"
  /\ RunPrimaryAction
  /\ msg' = [kind |-> "ExecuteSelected"]
  /\ UNCHANGED <<entry, apps, selected_index, received_focus, boot>>

\* navigate_items bounded by the raw list length instead of the filtered one
navigate_items_raw_size(delta) ==
  LET new_index == new_index_of(selected_index, delta)
      size == Len(apps)
  IN IF range_contains(size, new_index)
     THEN /\ selected_index' = new_index
          /\ effects' = <<SnapTo(new_index * ITEM_HEIGHT_SCALE_FACTOR)>>
     ELSE /\ selected_index' = selected_index
          /\ effects' = NoTask

\* navigate_items clamping the relative offset to 1.0 before emitting it
navigate_items_clamped(delta) ==
  LET new_index == new_index_of(selected_index, delta)
      size == Len(filtered(apps, entry))
      y == new_index * ITEM_HEIGHT_SCALE_FACTOR
  IN IF range_contains(size, new_index)
     THEN /\ selected_index' = new_index
          /\ effects' = <<SnapTo(IF y > 10000 THEN 10000 ELSE y)>>
     ELSE /\ selected_index' = selected_index
          /\ effects' = NoTask

\* navigate_items scrolling to the row it leaves instead of the new one
navigate_items_old_offset(delta) ==
  LET new_index == new_index_of(selected_index, delta)
      size == Len(filtered(apps, entry))
  IN IF range_contains(size, new_index)
     THEN /\ selected_index' = new_index
          /\ effects' = <<SnapTo(selected_index * ITEM_HEIGHT_SCALE_FACTOR)>>
     ELSE /\ selected_index' = selected_index
          /\ effects' = NoTask

\* Ilia::navigate_items(delta)
navigate_items(delta) ==
  LET new_index == new_index_of(selected_index, delta)
      size == Len(filtered(apps, entry))
  IN IF range_contains(size, new_index)
     THEN /\ selected_index' = new_index
          /\ effects' = <<SnapTo(new_index * ITEM_HEIGHT_SCALE_FACTOR)>>
     ELSE /\ selected_index' = selected_index
          /\ effects' = NoTask

\* Escape honoured only once the window has had focus
KeyEscape_needs_focus ==
  /\ pc = "running"
  /\ received_focus
  /\ pc' = "exited"
  /\ effects' = <<Terminate>>
  /\ msg' = [kind |-> "KeyEvent", key |-> "Escape"]
  /\ UNCHANGED <<entry, apps, selected_index, received_focus, boot>>

\* Escape returning a Terminate effect to a caller that keeps running
KeyEscape_keeps_running ==
  /\ pc = "running"
  /\ pc' = pc
  /\ effects' = <<Terminate>>
  /\ msg' = [kind |-> "KeyEvent", key |-> "Escape"]
  /\ UNCHANGED <<entry, apps, selected_index, received_focus, boot>>

\* IliaMessage::KeyEvent(Key::Named(Named::Escape))
KeyEscape ==
  /\ pc = "running"
  /\ pc' = "exited"
  /\ effects' = <<Terminate>>
  /\ msg' = [kind |-> "KeyEvent", key |-> "Escape"]
  /\ UNCHANGED <<entry, apps, selected_index, received_focus, boot>>

\* IliaMessage::KeyEvent(Key::Named(Named::ArrowUp))
KeyArrowUp ==
  /\ pc = "running"
  /\ navigate_items(-1)
  /\ msg' = [kind |-> "KeyEvent", key |-> "ArrowUp"]
  /\ UNCHANGED <<entry, apps, received_focus, pc, boot>>

\* IliaMessage::KeyEvent(Key::Named(Named::ArrowDown))
KeyArrowDown ==
  /\ pc = "running"
  /\ navigate_items(1)
  /\ msg' = [kind |-> "KeyEvent", key |-> "ArrowDown"]
  /\ UNCHANGED <<entry, apps, received_focus, pc, boot>>

\* Enter without an arm of its own, handled as any other key
KeyEnter_ignored ==
  /\ pc = "running"
  /\ effects' = NoTask
  /\ msg' = [kind |-> "KeyEvent", key |-> "Enter"]
  /\ UNCHANGED <<entry, apps, selected_index, received_focus, pc, boot>>

\* IliaMessage::KeyEvent(Key::Named(Named::Enter))
KeyEnter ==
  /\ pc = "running"
  /\ RunPrimaryAction
  /\ msg' = [kind |-> "KeyEvent", key |-> "Enter"]
  /\ UNCHANGED <<entry, apps, selected_index, received_focus, boot>>

\* IliaMessage::KeyEvent(_): any other key
KeyOther ==
  /\ pc = "running"
  /\ effects' = NoTask
  /\ msg' = [kind |-> "KeyEvent", key |-> "Other"]
  /\ UNCHANGED <<entry, apps, selected_index, received_focus, pc, boot>>

\* IliaMessage::GainedFocus
GainedFocus ==
  /\ pc = "running"
  /\ received_focus' = TRUE
  /\ effects' = NoTask
  /\ msg' = [kind |-> "GainedFocus"]
  /\ UNCHANGED <<entry, apps, selected_index, pc, boot>>

\* LostFocus that never exits
LostFocus_never_exits ==
  /\ pc = "running"
  /\ pc' = pc
  /\ effects' = NoTask
  /\ msg' = [kind |-> "LostFocus"]
  /\ UNCHANGED <<entry, apps, selected_index, received_focus, boot>>

\* LostFocus that exits without looking at received_focus
LostFocus_always_exits ==
  /\ pc = "running"
  /\ pc' = "exited"
  /\ effects' = <<Terminate>>
  /\ msg' = [kind |-> "LostFocus"]
  /\ UNCHANGED <<entry, apps, selected_index, received_focus, boot>>

\* LostFocus that clears received_focus when it exits
LostFocus_resets_flag ==
  /\ pc = "running"
  /\ IF received_focus
     THEN /\ pc' = "exited"
          /\ effects' = <<Terminate>>
     ELSE /\ pc' = pc
          /\ effects' = NoTask
  /\ received_focus' = FALSE
  /\ msg' = [kind |-> "LostFocus"]
  /\ UNCHANGED <<entry, apps, selected_index, boot>>

\* IliaMessage::LostFocus
LostFocus ==
  /\ pc = "running"
  /\ IF received_focus
     THEN /\ pc' = "exited"
          /\ effects' = <<Terminate>>
     ELSE /\ pc' = pc
          /\ effects' = NoTask
  /\ msg' = [kind |-> "LostFocus"]
  /\ UNCHANGED <<entry, apps, selected_index, received_focus, boot>>

\* Ilia::update, one disjunct per match arm
Next ==
  \/ \E items \in ItemLists : ModelLoaded(items)
  \/ \E entry_text \in EntryTexts : EntryUpdate(entry_text)
  \/ ExecuteSelected
  \/ KeyEscape
  \/ KeyArrowUp
  \/ KeyArrowDown
  \/ KeyEnter
  \/ KeyOther
  \/ GainedFocus
  \/ LostFocus

Spec == Init /\ [][Next]_vars

\* Ilia::update fed by a loader that can return the long list
NextScroll ==
  \/ \E items \in ScrollLists : ModelLoaded(items)
  \/ \E entry_text \in EntryTexts : EntryUpdate(entry_text)
  \/ ExecuteSelected
  \/ KeyEscape
  \/ KeyArrowUp
  \/ KeyArrowDown
  \/ KeyEnter
  \/ KeyOther
  \/ GainedFocus
  \/ LostFocus

SpecScroll == Init /\ [][NextScroll]_vars

\* the application under the iced runtime: ModelLoaded comes from the boot
\* Task only, the other messages from view() and subscription()
NextApp ==
  \/ BootTask
  \/ \E entry_text \in EntryTexts : EntryUpdate(entry_text)
  \/ ExecuteSelected
  \/ KeyEscape
  \/ KeyArrowUp
  \/ KeyArrowDown
  \/ KeyEnter
  \/ KeyOther
  \/ GainedFocus
  \/ LostFocus

SpecApp == Init /\ [][NextApp]_vars

\* the runtime's executor runs a spawned Task as long as the process lives
FairSpecApp == Init /\ [][NextApp]_vars /\ WF_vars(BootTask)

\* ilia-drun: the application with item_loader: load_apps and
\* primary_action: launch_app
NextDrun ==
  \/ BootTask
  \/ \E entry_text \in EntryTexts : EntryUpdate(entry_text)
  \/ DrunExecuteSelected
  \/ KeyEscape
  \/ KeyArrowUp
  \/ KeyArrowDown
  \/ DrunKeyEnter
  \/ KeyOther
  \/ GainedFocus
  \/ LostFocus

SpecDrun == Init /\ [][NextDrun]_vars

\* ------------------------------------------------------------ type check
TypeOK ==
  /\ entry \in EntryTexts
  /\ apps \in ItemLists \cup ScrollLists
  /\ selected_index \in 0..LongLen
  /\ received_focus \in BOOLEAN
  /\ pc \in {"running", "exited", "panicked"}
  /\ Len(effects) <= 2
  /\ boot \in {"pending", "delivered"}

\* ================================================================ claims
\* size of the filtered view in the current state
FilteredCount == Len(filtered(apps, entry))

\* C1: in every reachable state (ModelLoaded may be delivered more than
\* once), a non-empty filtered view implies selected_index < its size.
C1_SelectedIndexInRange ==
  FilteredCount > 0 => selected_index < FilteredCount

\* C2: LostFocus processed while received_focus is true emits exactly one
\* Terminate and the process is exited, whatever apps, entry and index are.
C2_FocusLostTerminates ==
  [][(msg'.kind = "LostFocus" /\ received_focus)
       => (effects' = <<Terminate>> /\ pc' = "exited")]_vars

C2_Witness ==
  /\ msg.kind = "LostFocus"
  /\ received_focus
  /\ pc = "exited"
  /\ effects = <<Terminate>>
  /\ apps # <<>>
  /\ entry # <<>>
  /\ selected_index > 0

\* C3: LostFocus processed while received_focus is false emits nothing and
\* leaves entry, apps, selected_index and received_focus unchanged; the
\* process keeps running.
C3_FocusLostIgnored ==
  [][(msg'.kind = "LostFocus" /\ ~received_focus)
       => /\ effects' = <<>>
          /\ pc' = "running"
          /\ UNCHANGED <<entry, apps, selected_index, received_focus>>]_vars

C3_Witness ==
  /\ msg.kind = "LostFocus"
  /\ ~received_focus
  /\ pc = "running"
  /\ effects = <<>>
  /\ apps # <<>>

\* C4: the Escape key can be processed in every running state, and
\* processing it exits the process whatever the rest of the state is.
C4_EscapeTerminates ==
  /\ [](pc = "running" => ENABLED KeyEscape)
  /\ [][(msg'.kind = "KeyEvent" /\ msg'.key = "Escape")
         => (pc' = "exited" /\ effects' = <<Terminate>>)]_vars

C4_Witness ==
  /\ msg.kind = "KeyEvent"
  /\ msg.key = "Escape"
  /\ pc = "exited"
  /\ ~received_focus
  /\ apps = <<>>

\* C5: EntryUpdate(new_text) sets entry to new_text and selected_index to
\* 0, leaves apps and received_focus unchanged and emits nothing.
C5_EntryUpdateResets ==
  [][msg'.kind = "EntryUpdate"
       => /\ entry' = msg'.text
          /\ selected_index' = 0
          /\ effects' = <<>>
          /\ UNCHANGED <<apps, received_focus, pc>>]_vars

C5_Witness ==
  /\ msg.kind = "EntryUpdate"
  /\ entry # <<>>
  /\ selected_index = 0
  /\ FilteredCount > 1
  /\ effects = <<>>

\* C6: navigation does not wrap and is bounded by the filtered view:
\* ArrowDown at the last row of the filtered view (or on an empty view) and
\* ArrowUp at row 0 change nothing and emit nothing.
C6_NavigateBoundaryNoOp ==
  [][/\ (msg'.kind = "KeyEvent" /\ msg'.key = "ArrowDown"
           /\ (selected_index = FilteredCount - 1 \/ FilteredCount = 0))
         => /\ effects' = <<>>
            /\ UNCHANGED <<entry, apps, selected_index, received_focus, pc>>
     /\ (msg'.kind = "KeyEvent" /\ msg'.key = "ArrowUp" /\ selected_index = 0)
         => /\ effects' = <<>>
            /\ UNCHANGED <<entry, apps, selected_index, received_focus, pc>>
    ]_vars

C6_Witness ==
  /\ msg.kind = "KeyEvent"
  /\ msg.key = "ArrowDown"
  /\ effects = <<>>
  /\ FilteredCount >= 1
  /\ FilteredCount < Len(apps)
  /\ selected_index = FilteredCount - 1

\* C7: ArrowUp / ArrowDown whose candidate index selected_index + delta lies
\* inside the filtered view commit the candidate, leave entry, apps and
\* received_focus unchanged, and emit exactly one ScrollTo whose offset is
\* candidate * ITEM_HEIGHT_SCALE_FACTOR.
C7_NavigateCommits ==
  [][\A delta \in {-1, 1} :
       LET candidate == selected_index + delta
       IN (/\ msg'.kind = "KeyEvent"
           /\ msg'.key = (IF delta = 1 THEN "ArrowDown" ELSE "ArrowUp")
           /\ 0 <= candidate
           /\ candidate < FilteredCount)
          => /\ selected_index' = candidate
             /\ UNCHANGED <<entry, apps, received_focus, pc>>
             /\ Len(effects') = 1
             /\ effects'[1].type = "ScrollTo"
             /\ effects'[1].y = candidate * ITEM_HEIGHT_SCALE_FACTOR
    ]_vars

\* a committed move whose offset is above 1.0 (10000 ten-thousandths)
C7_Witness ==
  /\ msg.kind = "KeyEvent"
  /\ msg.key = "ArrowDown"
  /\ selected_index > 0
  /\ Len(effects) = 1
  /\ effects[1].type = "ScrollTo"
  /\ effects[1].y = selected_index * ITEM_HEIGHT_SCALE_FACTOR
  /\ effects[1].y > 10000
  /\ entry # <<>>

\* C8: ExecuteSelected on a non-empty filtered view, after any sequence of
\* ModelLoaded, EntryUpdate and arrow keys, calls primary_action exactly
\* once, on the item at position selected_index of the filtered view, which
\* is the row view() draws as selected.
C8_ExecuteInvokesHighlighted ==
  [][(msg'.kind = "ExecuteSelected" /\ FilteredCount > 0)
       => LET f == filtered(apps, entry)
              rows == view(apps, entry, selected_index)
              calls == SelectSeq(effects', LAMBDA e : e.type = "Invoke")
          IN /\ Len(calls) = 1
             /\ selected_index < Len(f)
             /\ calls[1].item = f[selected_index + 1]
             /\ \A k \in 1..Len(rows) :
                  rows[k].selected <=> (f[k] = calls[1].item /\ k = selected_index + 1)
    ]_vars

\* C9: ExecuteSelected with an empty filtered view calls no primary_action,
\* emits nothing and leaves the state unchanged.
C9_ExecuteOnEmptyView ==
  [][(msg'.kind = "ExecuteSelected" /\ FilteredCount = 0)
       => /\ effects' = <<>>
          /\ UNCHANGED <<entry, apps, selected_index, received_focus, pc>>]_vars

C9_Witness ==
  /\ msg.kind = "ExecuteSelected"
  /\ effects = <<>>
  /\ apps # <<>>
  /\ entry # <<>>
  /\ FilteredCount = 0
  /\ pc = "running"

\* C10: the filtered view is the subsequence of apps, in the original order
\* and without duplication, of exactly the items whose title contains the
\* entry text as a substring when upper and lower case are not told apart;
\* the empty entry text yields all of apps; view() draws these titles.
C10_FilteredIsCaseInsensitiveSubsequence ==
  LET f == filtered(apps, entry)
      rows == view(apps, entry, selected_index)
      SameLetter(c, d) == c = d \/ {c, d} = {"a", "A"} \/ {c, d} = {"b", "B"}
      Matches(title) ==
        \E o \in 0..(Len(title) - Len(entry)) :
          \A k \in 1..Len(entry) : SameLetter(title[o + k], entry[k])
      M == {i \in 1..Len(apps) : Matches(apps[i].title)}
  IN /\ Len(f) = Cardinality(M)
     /\ \E g \in [1..Len(f) -> M] :
          /\ \A j, k \in 1..Len(f) : j < k => g[j] < g[k]
          /\ \A k \in 1..Len(f) : f[k] = apps[g[k]]
     /\ (entry = <<>> => f = apps)
     /\ Len(rows) = Len(f)
     /\ \A k \in 1..Len(f) : rows[k].name = f[k].title

C10_Witness ==
  /\ \E i \in 1..Len(entry) : entry[i] = "B"
  /\ Len(entry) = 2
  /\ FilteredCount >= 1
  /\ FilteredCount < Len(apps)
  /\ filtered(apps, entry)[1] # apps[1]

\* C11: ModelLoaded(items), in any state, replaces apps by items, leaves
\* entry, selected_index and received_focus unchanged, and returns exactly
\* one focus request for the text entry widget.
C11_LoadReplacesItems ==
  [][msg'.kind = "ModelLoaded"
       => /\ apps' = msg'.items
          /\ UNCHANGED <<entry, selected_index, received_focus, pc>>
          /\ Len(effects') = 1
          /\ effects'[1].type = "RequestFocus"
          /\ effects'[1].widget = "entry"]_vars

C11_Witness ==
  /\ msg.kind = "ModelLoaded"
  /\ apps = msg.items
  /\ apps # <<>>
  /\ entry # <<>>
  /\ selected_index > 0
  /\ received_focus
  /\ Len(effects) = 1
  /\ effects[1].type = "RequestFocus"

\* C12: no operation fails: whatever the primary action returns, update
\* completes normally and the process is never aborted.
C12_NoOperationFails == pc # "panicked"

\* C13: Terminated is absorbing: no message is processed, and so nothing is
\* emitted or changed, from a state in which the process has exited or a
\* Terminate has been produced.
C13_TerminatedIsAbsorbing ==
  [][/\ pc = "running"
     /\ \A i \in 1..Len(effects) : effects[i].type # "Terminate"]_vars

C13_Witness ==
  /\ pc = "exited"
  /\ msg.kind = "KeyEvent"
  /\ msg.key = "Escape"
  /\ effects = <<Terminate>>
  /\ received_focus
  /\ apps # <<>>

\* C14: while the boot Task has not delivered ModelLoaded, the messages the
\* user interface can send are tolerated: apps is empty, no primary action
\* is called, no scroll is requested, nothing panics and selected_index
\* stays 0, so the state in which ModelLoaded arrives has selected_index 0.
C14_PreLoadTolerated ==
  /\ boot = "pending"
       => /\ apps = <<>>
          /\ selected_index = 0
          /\ pc # "panicked"
          /\ \A i \in 1..Len(effects) :
               effects[i].type \notin {"Invoke", "ScrollTo"}
  /\ msg.kind = "ModelLoaded" => selected_index = 0

C14_Witness ==
  /\ boot = "pending"
  /\ pc = "running"
  /\ entry # <<>>
  /\ received_focus
  /\ msg.kind = "KeyEvent"
  /\ msg.key = "ArrowDown"
  /\ effects = <<>>
  /\ selected_index = 0

\* C15: apps is changed by ModelLoaded only: EntryUpdate, the arrow keys,
\* ExecuteSelected, Enter and other keys, GainedFocus and LostFocus leave
\* its content and order unchanged.
C15_ItemsChangedOnlyByLoad ==
  [][apps' # apps => msg'.kind = "ModelLoaded"]_vars

C15_Witness ==
  /\ msg.kind = "EntryUpdate"
  /\ Len(apps) >= 2
  /\ FilteredCount = 1
  /\ received_focus

\* C17: received_focus starts false, becomes true by GainedFocus only, and
\* once true stays true after every later message.
C17_FocusMonotone ==
  /\ ~received_focus
  /\ [][/\ received_focus => received_focus'
        /\ (~received_focus /\ received_focus') => msg'.kind = "GainedFocus"
       ]_vars

C17_Witness ==
  /\ received_focus
  /\ msg.kind = "EntryUpdate"
  /\ pc = "running"
  /\ apps = <<>>

\* C18 (as claimed): every change of selected_index, by the arrow keys or
\* by the reset of EntryUpdate, comes with a scroll request for the new
\* index, so that the last ScrollTo always names the selected row.
C18_ScrollFollowsSelection ==
  [][selected_index' # selected_index
       => /\ Len(effects') = 1
          /\ effects'[1].type = "ScrollTo"
          /\ effects'[1].y = selected_index' * ITEM_HEIGHT_SCALE_FACTOR]_vars

\* C18 (amended): every change of selected_index by an arrow key comes with
\* exactly one scroll request for the new index and every scroll request
\* emitted is for the new selected_index; the reset of selected_index to 0
\* by EntryUpdate emits no scroll request.
C18_ScrollOnNavigateOnly ==
  [][/\ selected_index' # selected_index
         => \/ /\ msg'.kind = "EntryUpdate"
               /\ selected_index' = 0
               /\ effects' = <<>>
            \/ /\ msg'.kind = "KeyEvent"
               /\ msg'.key \in {"ArrowUp", "ArrowDown"}
               /\ Len(effects') = 1
               /\ effects'[1].type = "ScrollTo"
               /\ effects'[1].y = selected_index' * ITEM_HEIGHT_SCALE_FACTOR
     /\ \A i \in 1..Len(effects') :
          effects'[i].type = "ScrollTo"
            => effects'[i].y = selected_index' * ITEM_HEIGHT_SCALE_FACTOR
    ]_vars

C18_Witness ==
  /\ msg.kind = "KeyEvent"
  /\ msg.key = "ArrowUp"
  /\ selected_index = 1
  /\ Len(effects) = 1
  /\ effects[1].type = "ScrollTo"
  /\ effects[1].y = ITEM_HEIGHT_SCALE_FACTOR
  /\ FilteredCount < Len(apps)

\* C19: in ilia-drun, ExecuteSelected or Enter on a non-empty filtered view
\* launches the selected item, and when the launch does not fail the
\* process has exited; no message is processed after the exit.
C19_LaunchEndsProcess ==
  [][/\ pc = "running"
     /\ (/\ \/ msg'.kind = "ExecuteSelected"
            \/ (msg'.kind = "KeyEvent" /\ msg'.key = "Enter")
         /\ FilteredCount > 0
         /\ pc' # "panicked")
        => /\ pc' = "exited"
           /\ Len(effects') = 2
           /\ effects'[1].type = "Invoke"
           /\ effects'[2].type = "Terminate"
    ]_vars

C19_Witness ==
  /\ pc = "exited"
  /\ boot = "delivered"
  /\ msg.kind = "KeyEvent"
  /\ msg.key = "Enter"
  /\ Len(effects) = 2
  /\ effects[1].type = "Invoke"
  /\ effects[2].type = "Terminate"
  /\ selected_index > 0

\* C20: KeyEvent(Enter) and ExecuteSelected are equivalent: in every state
\* each outcome (process state, effects, fields of State) that one of them
\* can produce the other can produce too.
C20_EnterEqualsExecute ==
  LET Outcomes ==
        {<<>>} \cup {<<Invoke(i)>> : i \in Catalog}
               \cup {<<Invoke(i), Terminate>> : i \in Catalog}
  IN IF pc = "running"
     THEN \A p \in {"running", "exited", "panicked"} : \A e \in Outcomes :
            (ENABLED (/\ KeyEnter
                      /\ pc' = p
                      /\ effects' = e
                      /\ UNCHANGED <<entry, apps, selected_index, received_focus, boot>>))
            <=>
            (ENABLED (/\ ExecuteSelected
                      /\ pc' = p
                      /\ effects' = e
                      /\ UNCHANGED <<entry, apps, selected_index, received_focus, boot>>))
     ELSE ~(ENABLED KeyEnter) /\ ~(ENABLED ExecuteSelected)

C20_Witness ==
  /\ msg.kind = "KeyEvent"
  /\ msg.key = "Enter"
  /\ pc = "running"
  /\ Len(effects) = 1
  /\ effects[1].type = "Invoke"
  /\ effects[1].item = filtered(apps, entry)[selected_index + 1]
  /\ selected_index > 0

\* C16 (as claimed): item_loader is called exactly once per session and its
\* result reaches update through exactly one ModelLoaded, which only the
\* boot Task produces.
C16_LoadExactlyOnce ==
  /\ [][msg'.kind = "ModelLoaded"
          => (boot = "pending" /\ boot' = "delivered")]_vars
  /\ <>(boot = "delivered")

\* C16 (amended): item_loader is called at most once per session, by the
\* boot Task, and its result reaches update through at most one
\* ModelLoaded; it is delivered exactly once unless the process ends before
\* the Task has run.  Nothing else produces a ModelLoaded.
C16_LoadAtMostOnce ==
  /\ [][msg'.kind = "ModelLoaded"
          => (boot = "pending" /\ boot' = "delivered")]_vars
  /\ [][boot = "delivered" => boot' = "delivered"]_vars
  /\ <>(boot = "delivered" \/ pc # "running")

C16_Witness ==
  /\ boot = "delivered"
  /\ pc = "running"
  /\ apps # <<>>
  /\ msg.kind = "KeyEvent"
  /\ msg.key = "Other"

====
